---- MODULE Spec2Model ----
(***************************************************************************)
(* The timer registry and the time-keeping task of the sand daemon         *)
(* (src/src/sand/timers.rs, src/src/daemon/ctx.rs).                        *)
(*                                                                         *)
(* Instants and durations are integers (one unit = one clock tick).        *)
(* An Instant may be negative (awaken lowers due times); a Duration never  *)
(* is: Instant - Instant saturates at zero, as std::time does.             *)
(***************************************************************************)
EXTENDS Integers, FiniteSets, Sequences, TLC

\* ---- bounds of the model
MaxTimers == 2      \* timers registered at once
MaxTime == 2        \* the monotonic clock runs 0..MaxTime
MaxSleep == 2       \* wall-clock time that passes while asleep: <= MaxSleep
ScenarioEnd == 8    \* the clock of a scripted scenario runs 0..ScenarioEnd
ScenarioSleep == 3  \* wall-clock time that passes in the suspend scenario

TimerIds == 1..MaxTimers
Durations == {1, 2}     \* the durations clients ask for
Clients == {"c1", "c2"} \* client connections whose start commands interleave
None == [none |-> TRUE]
Some(v) == [some |-> v]

VARIABLES
    timers,                 \* DaemonCtx.timers: TimerId -> Timer (the DashMap)
    refresh_next_due,       \* DaemonCtx.refresh_next_due: the Notify's stored permit
    last_started,           \* DaemonCtx.last_started: Option<Duration>
    state,                  \* keep_time's KeepTimeState: "Awake" | "Asleep";
                            \* "Exited" once the process has exited
    slept_at,               \* KeepTimeState::Asleep.slept_at (wall clock)
    pc,                     \* keep_time's position: "compute" | "select"
    next_due,               \* handle_awake_state's next_due, with the sleep's deadline
    elapsed_while_sleeping, \* the list awaken returned last
    notifying,              \* the timer ids with a do_notification task in flight
    now,                    \* Instant::now(), the monotonic clock
    wall,                   \* SystemTime::now(), read against slept_at while Asleep
    client,                 \* each client task's position in start_timer
    cancelled,              \* history: the ids whose timer was cancelled and that
                            \* no start has taken since
    suspends_closed         \* suspends_stream.next() has yielded None

vars == <<timers, refresh_next_due, last_started, state, slept_at, pc, next_due,
          elapsed_while_sleeping, notifying, now, wall, client,
          cancelled, suspends_closed>>

\* a task that is not inside start_timer or inside a mutation of one entry
Idle == [pc |-> "idle"]

\* DashMap::entry(id) holds the lock of the key's shard for as long as the
\* Entry lives.  Between steps only a VacantEntry returned by
\* first_vacant_entry is alive.  Locks are per key here: keys that share a shard
\* only block each other more.
\* an entry lookup that takes no lock
Locked_never(id) == FALSE

Locked(id) ==
    \E c \in Clients : client[c].pc \in {"vacant", "entry"} /\ client[c].id = id

\* DashMap::iter / iter_mut pass through every shard
NoLock == \A id \in TimerIds : ~Locked(id)

\* ---- timer values (TimerState)
Running(due) == [state |-> "Running", due |-> due]
Paused(remaining) == [state |-> "Paused", remaining |-> remaining]
Elapsed == [state |-> "Elapsed"]

IsRunning(m, id) == id \in DOMAIN m /\ m[id].state = "Running"
IsPaused(m, id) == id \in DOMAIN m /\ m[id].state = "Paused"
IsElapsed(m, id) == id \in DOMAIN m /\ m[id].state = "Elapsed"

\* Instant - Instant: Instant::duration_since, saturating at zero
DurationSince(later, earlier) == IF later >= earlier THEN later - earlier ELSE 0

\* DashMap::insert / DashMap::remove on the registry
Insert(m, id, t) == [k \in DOMAIN m \cup {id} |-> IF k = id THEN t ELSE m[k]]
Remove(m, id) == [k \in DOMAIN m \ {id} |-> m[k]]

\* Timer::new_running(duration, now)
new_running(duration, t) == Running(t + duration)

\* Timers::first_vacant_entry: (1..).find_map(entry(id) is Vacant)
RECURSIVE FindVacant(_, _)
FindVacant(m, id) == IF id \in DOMAIN m THEN FindVacant(m, id + 1) ELSE id

\* a registry that hands out ids like a counter: one past the largest key
first_vacant_entry_counter(m) ==
    IF DOMAIN m = {} THEN 1
    ELSE (CHOOSE k \in DOMAIN m : \A j \in DOMAIN m : j <= k) + 1

first_vacant_entry(m) == FindVacant(m, 1)

\* DaemonCtx::_start_timer: the registry after the insert, and the id returned
_start_timer(m, t, duration) ==
    LET id == first_vacant_entry(m)
    IN  [timers |-> Insert(m, id, new_running(duration, t)), id |-> id]

\* pause_timer with a plain subtraction where the code's saturates
pause_timer_unsaturated(m, id, t) ==
    IF id \notin DOMAIN m
    THEN [timers |-> m, r |-> "TimerNotFound", notify |-> FALSE]
    ELSE IF m[id].state = "Running"
    THEN [timers |-> [m EXCEPT ![id] = Paused(m[id].due - t)],
          r |-> "Ok", notify |-> TRUE]
    ELSE IF m[id].state = "Paused"
    THEN [timers |-> m, r |-> "AlreadyPaused", notify |-> FALSE]
    ELSE [timers |-> m, r |-> "AlreadyElapsed", notify |-> FALSE]

\* pause_timer that pauses again a timer that is already Paused
pause_timer_repause(m, id, t) ==
    IF id \notin DOMAIN m
    THEN [timers |-> m, r |-> "TimerNotFound", notify |-> FALSE]
    ELSE IF m[id].state = "Running"
    THEN [timers |-> [m EXCEPT ![id] = Paused(DurationSince(m[id].due, t))],
          r |-> "Ok", notify |-> TRUE]
    ELSE IF m[id].state = "Paused"
    THEN [timers |-> [m EXCEPT ![id] = Paused(0)], r |-> "Ok", notify |-> TRUE]
    ELSE [timers |-> m, r |-> "AlreadyElapsed", notify |-> FALSE]

\* pause_timer that does not signal the time-keeping task
pause_timer_silent(m, id, t) ==
    IF id \notin DOMAIN m
    THEN [timers |-> m, r |-> "TimerNotFound", notify |-> FALSE]
    ELSE IF m[id].state = "Running"
    THEN [timers |-> [m EXCEPT ![id] = Paused(DurationSince(m[id].due, t))],
          r |-> "Ok", notify |-> FALSE]
    ELSE IF m[id].state = "Paused"
    THEN [timers |-> m, r |-> "AlreadyPaused", notify |-> FALSE]
    ELSE [timers |-> m, r |-> "AlreadyElapsed", notify |-> FALSE]

\* DaemonCtx::pause_timer: the registry after the call, the response, and
\* whether refresh_next_due.notify_one() was called
pause_timer(m, id, t) ==
    IF id \notin DOMAIN m
    THEN [timers |-> m, r |-> "TimerNotFound", notify |-> FALSE]
    ELSE IF m[id].state = "Running"
    THEN [timers |-> [m EXCEPT ![id] = Paused(DurationSince(m[id].due, t))],
          r |-> "Ok", notify |-> TRUE]
    ELSE IF m[id].state = "Paused"
    THEN [timers |-> m, r |-> "AlreadyPaused", notify |-> FALSE]
    ELSE [timers |-> m, r |-> "AlreadyElapsed", notify |-> FALSE]

\* resume_timer that takes the stored remaining as the new deadline
resume_timer_no_now(m, id, t) ==
    IF id \notin DOMAIN m
    THEN [timers |-> m, r |-> "TimerNotFound", notify |-> FALSE]
    ELSE IF m[id].state = "Paused"
    THEN [timers |-> [m EXCEPT ![id] = Running(m[id].remaining)],
          r |-> "Ok", notify |-> TRUE]
    ELSE IF m[id].state = "Running"
    THEN [timers |-> m, r |-> "AlreadyRunning", notify |-> FALSE]
    ELSE [timers |-> m, r |-> "AlreadyElapsed", notify |-> FALSE]

\* resume_timer that restarts the countdown of a Running timer
resume_timer_rerun(m, id, t) ==
    IF id \notin DOMAIN m
    THEN [timers |-> m, r |-> "TimerNotFound", notify |-> FALSE]
    ELSE IF m[id].state = "Paused"
    THEN [timers |-> [m EXCEPT ![id] = Running(t + m[id].remaining)],
          r |-> "Ok", notify |-> TRUE]
    ELSE IF m[id].state = "Running"
    THEN [timers |-> [m EXCEPT ![id] = Running(t + DurationSince(m[id].due, t))],
          r |-> "Ok", notify |-> TRUE]
    ELSE [timers |-> m, r |-> "AlreadyElapsed", notify |-> FALSE]

\* DaemonCtx::resume_timer
resume_timer(m, id, t) ==
    IF id \notin DOMAIN m
    THEN [timers |-> m, r |-> "TimerNotFound", notify |-> FALSE]
    ELSE IF m[id].state = "Paused"
    THEN [timers |-> [m EXCEPT ![id] = Running(t + m[id].remaining)],
          r |-> "Ok", notify |-> TRUE]
    ELSE IF m[id].state = "Running"
    THEN [timers |-> m, r |-> "AlreadyRunning", notify |-> FALSE]
    ELSE [timers |-> m, r |-> "AlreadyElapsed", notify |-> FALSE]

\* cancel_timer that removes an Elapsed timer too
cancel_timer_any_state(m, id, t) ==
    IF id \notin DOMAIN m
    THEN [timers |-> m, r |-> "TimerNotFound", notify |-> FALSE]
    ELSE [timers |-> Remove(m, id), r |-> "Ok", notify |-> TRUE]

\* cancel_timer that reports success for an id it does not know
cancel_timer_absent_ok(m, id, t) ==
    IF id \in DOMAIN m /\ m[id].state = "Elapsed"
    THEN [timers |-> m, r |-> "AlreadyElapsed", notify |-> FALSE]
    ELSE [timers |-> Remove(m, id), r |-> "Ok", notify |-> TRUE]

\* cancel_timer that clears the whole registry
cancel_timer_clear(m, id, t) ==
    IF id \notin DOMAIN m
    THEN [timers |-> m, r |-> "TimerNotFound", notify |-> FALSE]
    ELSE IF m[id].state = "Elapsed"
    THEN [timers |-> m, r |-> "AlreadyElapsed", notify |-> FALSE]
    ELSE [timers |-> << >>, r |-> "Ok", notify |-> TRUE]

\* DaemonCtx::cancel_timer
cancel_timer(m, id, t) ==
    IF id \notin DOMAIN m
    THEN [timers |-> m, r |-> "TimerNotFound", notify |-> FALSE]
    ELSE IF m[id].state = "Elapsed"
    THEN [timers |-> m, r |-> "AlreadyElapsed", notify |-> FALSE]
    ELSE [timers |-> Remove(m, id), r |-> "Ok", notify |-> TRUE]

\* TimerInfo with the remaining of a Running timer as a signed difference
TimerInfo_signed(id, timer, t) ==
    [id |-> id,
     state |-> timer.state,
     remaining |-> IF timer.state = "Paused" THEN timer.remaining
                   ELSE IF timer.state = "Running" THEN timer.due - t
                   ELSE 0]

\* TimerInfo::new: what a client is told about one timer
TimerInfo(id, timer, t) ==
    [id |-> id,
     state |-> timer.state,
     remaining |-> IF timer.state = "Paused" THEN timer.remaining
                   ELSE IF timer.state = "Running" THEN DurationSince(timer.due, t)
                   ELSE 0]

\* Timers::get_timerinfo_for_client: one TimerInfo per entry (a Vec, in the
\* map's iteration order; taken as a set)
get_timerinfo_for_client(m, t) == {TimerInfo(id, m[id], t) : id \in DOMAIN m}

\* a list that takes the Elapsed timers it reports out of the registry
list_timers_acknowledge(m, t) ==
    [timers |-> [id \in {k \in DOMAIN m : m[k].state # "Elapsed"} |-> m[id]],
     r |-> get_timerinfo_for_client(m, t),
     notify |-> FALSE]

\* CmdHandlerCtx::list: the registry after the call and the response
list_timers(m, t) ==
    [timers |-> m, r |-> get_timerinfo_for_client(m, t), notify |-> FALSE]

\* the process runs: std::process::exit has not been called
Alive == state # "Exited"

\* ---- client commands (handle_command), each handler as one step.
\* Every handler reads Instant::now() once (CmdHandlerCtx::new).
StartTimer(duration) ==
    /\ Alive
    /\ Cardinality(DOMAIN timers) < MaxTimers
    /\ NoLock
    /\ LET r == _start_timer(timers, now, duration)
       IN  timers' = r.timers /\ cancelled' = cancelled \ {r.id}
    /\ refresh_next_due' = TRUE
    /\ last_started' = Some(duration)
    /\ UNCHANGED <<state, slept_at, pc, next_due, elapsed_while_sleeping,
                   notifying, now, wall, client,
                   suspends_closed>>

\* message::AgainResponse
NonePreviouslyStarted == [response |-> "NonePreviouslyStarted"]
AgainOk(id, duration) == [response |-> "Ok", id |-> id, duration |-> duration]

\* again that takes an empty registry for a daemon that never started a timer
again_empty(m, last, t) ==
    IF last = None \/ DOMAIN m = {}
    THEN [timers |-> m, r |-> NonePreviouslyStarted, notify |-> FALSE]
    ELSE LET started == _start_timer(m, t, last.some)
         IN  [timers |-> started.timers,
              r |-> AgainOk(started.id, last.some),
              notify |-> TRUE]

\* DaemonCtx::again: the registry after it, the AgainResponse, and whether
\* refresh_next_due was notified
again(m, last, t) ==
    IF last = None
    THEN [timers |-> m, r |-> NonePreviouslyStarted, notify |-> FALSE]
    ELSE LET started == _start_timer(m, t, last.some)
         IN  [timers |-> started.timers,
              r |-> AgainOk(started.id, last.some),
              notify |-> TRUE]

Again ==
    /\ Alive
    /\ LET result == again(timers, last_started, now)
       IN  /\ result.notify => (Cardinality(DOMAIN timers) < MaxTimers /\ NoLock)
           /\ timers' = result.timers
           /\ refresh_next_due' = (refresh_next_due \/ result.notify)
           /\ cancelled' = IF result.notify THEN cancelled \ {result.r.id}
                           ELSE cancelled
    /\ UNCHANGED <<last_started, state, slept_at, pc, next_due,
                   elapsed_while_sleeping, notifying, now, wall, client,
                   suspends_closed>>

\* a handler that maps (registry, id, now) to (registry, response, notify)
Command(result) ==
    /\ Alive
    /\ timers' = result.timers
    /\ refresh_next_due' = (refresh_next_due \/ result.notify)
    /\ UNCHANGED <<last_started, state, slept_at, pc, next_due,
                   elapsed_while_sleeping, notifying, now, wall, client,
                   suspends_closed>>

PauseTimer(id) ==
    /\ ~Locked(id)
    /\ Command(pause_timer(timers, id, now))
    /\ UNCHANGED cancelled

ResumeTimer(id) ==
    /\ ~Locked(id)
    /\ Command(resume_timer(timers, id, now))
    /\ UNCHANGED cancelled

CancelTimer(id) ==
    /\ ~Locked(id)
    /\ Command(cancel_timer(timers, id, now))
    /\ cancelled' = IF cancel_timer(timers, id, now).r = "Ok"
                    THEN cancelled \cup {id}
                    ELSE cancelled

List ==
    /\ NoLock
    /\ Command(list_timers(timers, now))
    /\ UNCHANGED cancelled

\* ---- start_timer step by step, as client tasks on other threads see it
\* the client tasks inside start_timer
Starting == {c \in Clients : client[c] # Idle}

\* handle_command: CmdHandlerCtx::new reads the clock, start_timer is entered
StartBegin(c, duration) ==
    /\ Alive
    /\ client[c] = Idle
    /\ Cardinality(DOMAIN timers) + Cardinality(Starting) < MaxTimers
    /\ client' = [client EXCEPT ![c] =
                    [pc |-> "probe", id |-> 1, now |-> now, duration |-> duration]]
    /\ UNCHANGED <<timers, refresh_next_due, last_started, state, slept_at, pc,
                   next_due, elapsed_while_sleeping, notifying, now, wall,
                   cancelled, suspends_closed>>

\* first_vacant_entry: one entry(id) of the find_map; an Occupied entry is
\* dropped (and its lock with it), a Vacant one is kept
StartProbe(c) ==
    /\ Alive
    /\ client[c] # Idle /\ client[c].pc = "probe"
    /\ ~Locked(client[c].id)
    /\ client' = [client EXCEPT ![c] =
                    IF client[c].id \in DOMAIN timers
                    THEN [@ EXCEPT !.id = @ + 1]
                    ELSE [@ EXCEPT !.pc = "vacant"]]
    /\ UNCHANGED <<timers, refresh_next_due, last_started, state, slept_at, pc,
                   next_due, elapsed_while_sleeping, notifying, now, wall,
                   cancelled, suspends_closed>>

\* _start_timer: vacant.insert(new_running), notify_one; start_timer then
\* stores last_started
StartInsert(c) ==
    /\ Alive
    /\ client[c] # Idle /\ client[c].pc = "vacant"
    /\ timers' = Insert(timers, client[c].id,
                        new_running(client[c].duration, client[c].now))
    /\ refresh_next_due' = TRUE
    /\ last_started' = Some(client[c].duration)
    /\ client' = [client EXCEPT ![c] = Idle]
    /\ cancelled' = cancelled \ {client[c].id}
    /\ UNCHANGED <<state, slept_at, pc, next_due, elapsed_while_sleeping,
                   notifying, now, wall,
                   suspends_closed>>

\* ---- the registry operations of the time-keeping task
\* set_elapsed that marks whatever timer holds the id
set_elapsed_any(m, id) ==
    IF id \in DOMAIN m THEN [m EXCEPT ![id] = Elapsed] ELSE m

\* a registry that drops a timer when it elapses
set_elapsed_removing(m, id) ==
    IF id \in DOMAIN m /\ m[id].state = "Running"
    THEN Remove(m, id)
    ELSE m

\* Timers::set_elapsed: only a Running timer changes
set_elapsed(m, id) ==
    IF id \in DOMAIN m /\ m[id].state = "Running"
    THEN [m EXCEPT ![id] = Elapsed]
    ELSE m

\* Timers::next_due_running: the (id, remaining) pairs min_by_key may return.
\* The DashMap is iterated in no particular order, so among several minima
\* any one may come first.
RunningIds(m) == {id \in DOMAIN m : m[id].state = "Running"}

\* next_due_running over a map that is iterated in ascending id order: among
\* several minima the smallest id comes first
next_due_running_ordered(m, t) ==
    IF RunningIds(m) = {}
    THEN {None}
    ELSE LET least == {i \in RunningIds(m) :
                         \A k \in RunningIds(m) :
                            DurationSince(m[i].due, t) <= DurationSince(m[k].due, t)}
             id == CHOOSE i \in least : \A k \in least : i <= k
         IN  {[id |-> id, duration |-> DurationSince(m[id].due, t)]}

\* next_due_running that takes the first Running timer the iteration meets
next_due_running_first(m, t) ==
    IF RunningIds(m) = {}
    THEN {None}
    ELSE {[id |-> id, duration |-> DurationSince(m[id].due, t)] : id \in RunningIds(m)}

next_due_running(m, t) ==
    IF RunningIds(m) = {}
    THEN {None}
    ELSE {[id |-> id, duration |-> DurationSince(m[id].due, t)] :
            id \in {i \in RunningIds(m) :
                      \A k \in RunningIds(m) :
                         DurationSince(m[i].due, t) <= DurationSince(m[k].due, t)}}

\* awaken that takes the sleep off the remaining of the Paused timers too
awaken_due_paused(m, sleep_duration) ==
    [id \in DOMAIN m |->
        IF m[id].state = "Running" THEN Running(m[id].due - sleep_duration)
        ELSE IF m[id].state = "Paused"
        THEN Paused(DurationSince(m[id].remaining, sleep_duration))
        ELSE m[id]]

\* Timers::awaken, first loop: every Running timer's due is lowered
awaken_due(m, sleep_duration) ==
    [id \in DOMAIN m |->
        IF m[id].state = "Running" THEN Running(m[id].due - sleep_duration) ELSE m[id]]

\* awaken that takes a timer due exactly now as not yet elapsed
awaken_elapsed_strict(m, sleep_duration, t) ==
    {id \in DOMAIN m : m[id].state = "Running" /\ m[id].due - sleep_duration < t}

\* Timers::awaken, first loop: the ids pushed to elapsed_while_asleep
awaken_elapsed(m, sleep_duration, t) ==
    {id \in RunningIds(m) : m[id].due - sleep_duration <= t}

\* Timers::awaken, second loop: set_elapsed on each id of the list
RECURSIVE set_elapsed_all(_, _)
set_elapsed_all(m, list) ==
    IF list = << >> THEN m ELSE set_elapsed_all(set_elapsed(m, Head(list)), Tail(list))

\* the orders in which a set of ids can be pushed (the DashMap's iteration order)
RECURSIVE Orders(_)
Orders(S) ==
    IF S = {} THEN {<< >>}
    ELSE UNION {{<<x>> \o rest : rest \in Orders(S \ {x})} : x \in S}

\* a daemon that takes the size of the clock's step back as the time slept
sleep_duration_of_abs(woke_at, slept) ==
    IF woke_at >= slept THEN woke_at - slept ELSE slept - woke_at

\* a daemon that takes no account of the time spent suspended
sleep_duration_of_none(woke_at, slept) == 0

\* SystemTime::duration_since(slept_at), Err mapped to Duration::ZERO
sleep_duration_of(woke_at, slept) == IF woke_at >= slept THEN woke_at - slept ELSE 0

\* ---- keep_time: the time-keeping task
\* handle_awake_state up to the select!: next_due is computed and the sleep
\* starts.  The select! is first polled in the same poll of the task: with a
\* permit stored, notified() is ready at once (SchedNotified), and the task
\* gets to wait only if the sleep is ready too and select! picks it.  A
\* suspend signal that is ready by then is taken there as well
\* (SchedSuspendSignal).
SchedCompute ==
    /\ state = "Awake" /\ pc = "compute"
    /\ NoLock
    /\ \E nd \in next_due_running(timers, now) :
          /\ refresh_next_due => (nd # None /\ nd.duration = 0)
          /\ next_due' = IF nd = None THEN None
                         ELSE [id |-> nd.id, deadline |-> now + nd.duration]
    /\ pc' = "select"
    /\ UNCHANGED <<timers, refresh_next_due, last_started, state, slept_at,
                   elapsed_while_sleeping, notifying, now, wall, client,
                   cancelled, suspends_closed>>

\* select! branch: refresh_next_due.notified()
SchedNotified ==
    /\ state = "Awake"
    /\ pc = "select" \/ (pc = "compute" /\ NoLock)
    /\ refresh_next_due
    /\ refresh_next_due' = FALSE
    /\ pc' = "compute"
    /\ next_due' = None
    /\ UNCHANGED <<timers, last_started, state, slept_at, elapsed_while_sleeping,
                   notifying, now, wall, client, cancelled, suspends_closed>>

\* the suspend signals dbus_suspend_events turns logind's PrepareForSleep into
SuspendSignals == {"GoingToSleep", "WakingUp"}

\* a daemon that does not stop counting down on GoingToSleep
handle_suspend_signal_awake_state_deaf(signal, slept, w) ==
    [state |-> "Awake", slept_at |-> slept]

\* handle_suspend_signal_awake_state: the next KeepTimeState (slept_at is
\* SystemTime::now(); Awake carries none, the variable keeps its value)
handle_suspend_signal_awake_state(signal, slept, w) ==
    IF signal = "WakingUp"
    THEN [state |-> "Awake", slept_at |-> slept]
    ELSE [state |-> "Asleep", slept_at |-> w]

\* select! branch: a suspend signal (handle_suspend_signal_awake_state)
SchedSuspendSignal(signal) ==
    /\ state = "Awake"
    /\ ~suspends_closed
    /\ pc = "select" \/ (pc = "compute" /\ NoLock)
    /\ LET next_state == handle_suspend_signal_awake_state(signal, slept_at, wall)
       IN  state' = next_state.state /\ slept_at' = next_state.slept_at
    /\ pc' = "compute"
    /\ next_due' = None
    /\ UNCHANGED <<timers, refresh_next_due, last_started, elapsed_while_sleeping,
                   notifying, now, wall, client, cancelled, suspends_closed>>

\* select! branch: the sleep for next_due ran out
SchedCountdown ==
    /\ state = "Awake" /\ pc = "select"
    /\ next_due # None
    /\ now >= next_due.deadline
    /\ next_due.id \notin notifying
    /\ ~Locked(next_due.id)
    /\ timers' = set_elapsed(timers, next_due.id)
    /\ notifying' = notifying \cup {next_due.id}
    /\ pc' = "compute"
    /\ next_due' = None
    /\ UNCHANGED <<refresh_next_due, last_started, state, slept_at,
                   elapsed_while_sleeping, now, wall, client,
                   cancelled, suspends_closed>>

\* a daemon that takes a second GoingToSleep as the start of the sleep
handle_asleep_state_restarted(slept, w) == [state |-> "Asleep", slept_at |-> w]

\* handle_asleep_state on GoingToSleep: KeepTimeState::Asleep { slept_at }
handle_asleep_state_ignored(slept, w) == [state |-> "Asleep", slept_at |-> slept]

\* handle_asleep_state: a second GoingToSleep is ignored
AsleepIgnore ==
    /\ state = "Asleep" /\ pc = "compute"
    /\ ~suspends_closed
    /\ LET next_state == handle_asleep_state_ignored(slept_at, wall)
       IN  state' = next_state.state /\ slept_at' = next_state.slept_at
    /\ UNCHANGED <<timers, refresh_next_due, last_started, pc,
                   next_due, elapsed_while_sleeping, notifying, now, wall, client,
                   cancelled, suspends_closed>>

\* handle_asleep_state: WakingUp, up to the return of Timers::awaken
AsleepWake ==
    /\ state = "Asleep" /\ pc = "compute"
    /\ ~suspends_closed
    /\ NoLock
    /\ LET d == sleep_duration_of(wall, slept_at)
       IN  /\ elapsed_while_sleeping' \in Orders(awaken_elapsed(timers, d, now))
           /\ timers' = set_elapsed_all(awaken_due(timers, d), elapsed_while_sleeping')
    /\ pc' = "spawn"
    /\ UNCHANGED <<refresh_next_due, last_started, state, slept_at, next_due,
                   notifying, now, wall, client, cancelled, suspends_closed>>

\* handle_asleep_state: a do_notification task is spawned for every id returned
AsleepSpawn ==
    /\ state = "Asleep" /\ pc = "spawn"
    /\ \A i \in 1..Len(elapsed_while_sleeping) :
          elapsed_while_sleeping[i] \notin notifying
    /\ notifying' = notifying \cup
                       {elapsed_while_sleeping[i] : i \in 1..Len(elapsed_while_sleeping)}
    /\ elapsed_while_sleeping' = << >>
    /\ state' = "Awake"
    /\ pc' = "compute"
    /\ slept_at' = 0
    /\ wall' = 0
    /\ UNCHANGED <<timers, refresh_next_due, last_started, next_due, now, client,
                   cancelled, suspends_closed>>

\* ---- the suspend-event stream ends (the D-Bus connection is lost)
\* handle_awake_state: suspends_stream.next() yields None, the pattern
\* Some(signal) of the select! branch does not match and the branch is
\* disabled; the select! goes on with the other two.
SuspendsClosedAwake ==
    /\ state = "Awake"
    /\ ~suspends_closed
    /\ suspends_closed' = TRUE
    /\ UNCHANGED <<timers, refresh_next_due, last_started, state, slept_at, pc,
                   next_due, elapsed_while_sleeping, notifying, now, wall, client,
                   cancelled>>

\* handle_asleep_state: suspends_stream.next() yields None, the let-else logs
\* an error and calls std::process::exit(1)
SuspendsClosedAsleep ==
    /\ state = "Asleep" /\ pc = "compute"
    /\ ~suspends_closed
    /\ suspends_closed' = TRUE
    /\ state' = "Exited"
    /\ UNCHANGED <<timers, refresh_next_due, last_started, slept_at, pc,
                   next_due, elapsed_while_sleeping, notifying, now, wall, client,
                   cancelled>>

\* ---- do_notification: one task per elapsed-event
\* the notification was closed: the task removes the id from the registry
NotificationClosed(id) ==
    /\ Alive
    /\ id \in notifying
    /\ ~Locked(id)
    /\ notifying' = notifying \ {id}
    /\ timers' = Remove(timers, id)
    /\ UNCHANGED <<refresh_next_due, last_started, state, slept_at, pc, next_due,
                   elapsed_while_sleeping, now, wall, client,
                   cancelled, suspends_closed>>

\* the notification could not be shown: the task returns early
NotificationFailed(id) ==
    /\ Alive
    /\ id \in notifying
    /\ notifying' = notifying \ {id}
    /\ UNCHANGED <<timers, refresh_next_due, last_started, state, slept_at, pc,
                   next_due, elapsed_while_sleeping, now, wall, client,
                   cancelled, suspends_closed>>

\* ---- the clocks
\* The monotonic clock advances; while the daemon is Asleep the wall clock is
\* read against slept_at, so it advances with it.
Tick ==
    /\ now < MaxTime
    /\ now' = now + 1
    /\ IF state = "Asleep"
       THEN wall < MaxSleep /\ wall' = wall + 1
       ELSE UNCHANGED wall
    /\ UNCHANGED <<timers, refresh_next_due, last_started, state, slept_at, pc,
                   next_due, elapsed_while_sleeping, notifying, client,
                   cancelled, suspends_closed>>

\* The machine is suspended: wall-clock time passes, monotonic time does not.
Suspended ==
    /\ state = "Asleep" /\ pc = "compute"
    /\ wall < MaxSleep
    /\ wall' = wall + 1
    /\ UNCHANGED <<timers, refresh_next_due, last_started, state, slept_at, pc,
                   next_due, elapsed_while_sleeping, notifying, now, client,
                   cancelled, suspends_closed>>

\* The wall clock is set back while the daemon is Asleep.
ClockSetBack ==
    /\ state = "Asleep" /\ pc = "compute"
    /\ wall > slept_at - 1
    /\ wall' = wall - 1
    /\ UNCHANGED <<timers, refresh_next_due, last_started, state, slept_at, pc,
                   next_due, elapsed_while_sleeping, notifying, now, client,
                   cancelled, suspends_closed>>

Init ==
    /\ timers = << >>
    /\ refresh_next_due = FALSE
    /\ last_started = None
    /\ state = "Awake"
    /\ slept_at = 0
    /\ pc = "compute"
    /\ next_due = None
    /\ elapsed_while_sleeping = << >>
    /\ notifying = {}
    /\ client = [c \in Clients |-> Idle]
    /\ now = 0
    /\ wall = 0
    /\ cancelled = {}
    /\ suspends_closed = FALSE

\* the daemon on a machine that never suspends (no suspend signal arrives)
Next ==
    \/ \E duration \in Durations : StartTimer(duration)
    \/ Again
    \/ \E id \in TimerIds : PauseTimer(id)
    \/ \E id \in TimerIds : ResumeTimer(id)
    \/ \E id \in TimerIds : CancelTimer(id)
    \/ List
    \/ SchedCompute
    \/ SchedNotified
    \/ SchedCountdown
    \/ \E id \in TimerIds : NotificationClosed(id)
    \/ \E id \in TimerIds : NotificationFailed(id)
    \/ Tick

Spec == Init /\ [][Next]_vars

\* the same daemon with a time-keeping task that keeps being polled (tokio
\* runs a task that is ready; select! picks among its ready branches at
\* random, so a branch that is ready again and again is taken in the end),
\* with time passing, and with every notification ending at some point
Fairness ==
    /\ WF_vars(SchedCompute)
    /\ WF_vars(SchedNotified)
    /\ SF_vars(SchedCountdown)
    /\ WF_vars(Tick)
    /\ \A id \in TimerIds : WF_vars(NotificationClosed(id) \/ NotificationFailed(id))

SpecLive == Spec /\ Fairness

\* the daemon on a machine that suspends and wakes, while clients start, pause
\* and resume timers (no entry is removed)
NextSleep ==
    \/ \E duration \in Durations : StartTimer(duration)
    \/ \E id \in TimerIds : PauseTimer(id)
    \/ \E id \in TimerIds : ResumeTimer(id)
    \/ SchedCompute
    \/ SchedNotified
    \/ \E signal \in SuspendSignals : SchedSuspendSignal(signal)
    \/ SchedCountdown
    \/ AsleepIgnore
    \/ AsleepWake
    \/ AsleepSpawn
    \/ Tick
    \/ Suspended
    \/ ClockSetBack

SpecSleep == Init /\ [][NextSleep]_vars

\* the daemon on a machine that suspends and whose suspend-event stream may end
NextStream ==
    \/ \E duration \in Durations : StartTimer(duration)
    \/ \E id \in TimerIds : PauseTimer(id)
    \/ \E id \in TimerIds : ResumeTimer(id)
    \/ SchedCompute
    \/ SchedNotified
    \/ \E signal \in SuspendSignals : SchedSuspendSignal(signal)
    \/ SchedCountdown
    \/ AsleepIgnore
    \/ AsleepWake
    \/ AsleepSpawn
    \/ SuspendsClosedAwake
    \/ SuspendsClosedAsleep
    \/ Tick
    \/ Suspended

SpecStream == Init /\ [][NextStream]_vars

\* ---- Timers::awaken step by step, as client tasks on other threads see it.
\* The first loop (iter_mut) lowers the due times and collects the ids; the
\* second loop calls set_elapsed on each id collected.  No lock is held
\* between the two loops: a client command can run there.  (A command that
\* runs between two set_elapsed calls of the second loop leaves the registry
\* as if it had run before the loop: the ids already marked are Elapsed, which
\* pause and cancel refuse.)
AwakenDue ==
    /\ state = "Asleep" /\ pc = "compute"
    /\ ~suspends_closed
    /\ NoLock
    /\ LET d == sleep_duration_of(wall, slept_at)
       IN  /\ elapsed_while_sleeping' \in Orders(awaken_elapsed(timers, d, now))
           /\ timers' = awaken_due(timers, d)
    /\ pc' = "set_elapsed"
    /\ UNCHANGED <<refresh_next_due, last_started, state, slept_at, next_due,
                   notifying, now, wall, client, cancelled, suspends_closed>>

AwakenSetElapsed ==
    /\ state = "Asleep" /\ pc = "set_elapsed"
    /\ NoLock
    /\ timers' = set_elapsed_all(timers, elapsed_while_sleeping)
    /\ pc' = "spawn"
    /\ UNCHANGED <<refresh_next_due, last_started, state, slept_at, next_due,
                   elapsed_while_sleeping, notifying, now, wall, client,
                   cancelled, suspends_closed>>

\* the daemon on a machine that suspends and wakes, with client commands
\* running on other threads while awaken runs
NextAwaken ==
    \/ \E duration \in Durations : StartTimer(duration)
    \/ \E id \in TimerIds : PauseTimer(id)
    \/ \E id \in TimerIds : ResumeTimer(id)
    \/ \E id \in TimerIds : CancelTimer(id)
    \/ \E signal \in SuspendSignals : SchedSuspendSignal(signal)
    \/ AwakenDue
    \/ AwakenSetElapsed
    \/ AsleepSpawn
    \/ \E id \in TimerIds : NotificationClosed(id)
    \/ Tick
    \/ Suspended

SpecAwaken == Init /\ [][NextAwaken]_vars

\* client tasks run on several threads: start_timer interleaves, entry by
\* entry, with the other clients' commands
NextConc ==
    \/ \E c \in Clients, duration \in Durations : StartBegin(c, duration)
    \/ \E c \in Clients : StartProbe(c)
    \/ \E c \in Clients : StartInsert(c)
    \/ \E id \in TimerIds : PauseTimer(id)
    \/ \E id \in TimerIds : ResumeTimer(id)
    \/ \E id \in TimerIds : CancelTimer(id)
    \/ Tick

SpecConc == Init /\ [][NextConc]_vars

\* ---- two tasks that mutate the same entry, step by step: the call, the
\* entry(id) that takes the key's lock and reads the timer, and the write that
\* ends with the Entry dropped.  A task is a client task in pause_timer,
\* resume_timer or cancel_timer, or the time-keeping task in set_elapsed.
Mutations == {"pause", "resume", "cancel", "set_elapsed"}

\* the mutation as one step on registry m
Mutation(op, m, id, t) ==
    IF op = "pause" THEN pause_timer(m, id, t)
    ELSE IF op = "resume" THEN resume_timer(m, id, t)
    ELSE IF op = "cancel" THEN cancel_timer(m, id, t)
    ELSE [timers |-> set_elapsed(m, id), r |-> "()", notify |-> FALSE]

\* the value under key id, as entry(id) finds it
Lookup(m, id) == IF id \in DOMAIN m THEN Some(m[id]) ELSE None

\* registry m with the value v (None: no entry) under key id
WithEntry(m, id, v) ==
    IF v = None THEN Remove(m, id)
    ELSE [k \in DOMAIN m \cup {id} |-> IF k = id THEN v.some ELSE m[k]]

MutateCall(c, op, id) ==
    /\ Alive
    /\ client[c] = Idle
    /\ \A d \in Clients : client[d] # Idle => client[d].id = id
    /\ client' = [client EXCEPT ![c] =
                    [pc |-> "call", op |-> op, id |-> id, now |-> now,
                     called_on |-> Lookup(timers, id)]]
    /\ UNCHANGED <<timers, refresh_next_due, last_started, state, slept_at, pc,
                   next_due, elapsed_while_sleeping, notifying, now, wall,
                   cancelled, suspends_closed>>

MutateEntry(c) ==
    /\ Alive
    /\ client[c].pc = "call"
    /\ ~Locked(client[c].id)
    /\ client' = [client EXCEPT ![c] =
                    [pc |-> "entry", op |-> @.op, id |-> @.id, now |-> @.now,
                     called_on |-> @.called_on,
                     entry |-> Lookup(timers, @.id)]]
    /\ UNCHANGED <<timers, refresh_next_due, last_started, state, slept_at, pc,
                   next_due, elapsed_while_sleeping, notifying, now, wall,
                   cancelled, suspends_closed>>

\* the write goes through the Entry: it is computed from the timer the entry
\* was taken with and changes that key only
MutateDone(c) ==
    /\ Alive
    /\ client[c].pc = "entry"
    /\ LET id == client[c].id
           result == Mutation(client[c].op,
                              WithEntry(timers, id, client[c].entry),
                              id, client[c].now)
       IN  /\ timers' = WithEntry(timers, id, Lookup(result.timers, id))
           /\ refresh_next_due' = (refresh_next_due \/ result.notify)
           /\ cancelled' = IF client[c].op = "cancel" /\ result.r = "Ok"
                           THEN cancelled \cup {id} ELSE cancelled
           /\ client' = [client EXCEPT ![c] =
                           [pc |-> "done", op |-> @.op, id |-> @.id,
                            called_on |-> @.called_on, r |-> result.r]]
    /\ UNCHANGED <<last_started, state, slept_at, pc, next_due,
                   elapsed_while_sleeping, notifying, now, wall, suspends_closed>>

\* what sets the registry up before the two tasks are called: starts, pauses
\* and time passing
Uncalled == \A c \in Clients : client[c] = Idle
RaceStart(duration) == Uncalled /\ StartTimer(duration)
RacePause(id) == Uncalled /\ PauseTimer(id)
RaceTick == Uncalled /\ Tick

NextRace ==
    \/ \E duration \in Durations : RaceStart(duration)
    \/ \E id \in TimerIds : RacePause(id)
    \/ RaceTick
    \/ \E c \in Clients, op \in Mutations, id \in TimerIds : MutateCall(c, op, id)
    \/ \E c \in Clients : MutateEntry(c)
    \/ \E c \in Clients : MutateDone(c)

SpecRace == Init /\ [][NextRace]_vars

\* ---- scripted runs: the commands of one scenario at their instants, the
\* time-keeping task and the notification tasks free to run in between.
\* One clock unit is 500 ms.
\* the monotonic clock of a scripted run advances (the daemon is Awake)
ScenarioTick ==
    /\ now < ScenarioEnd
    /\ now' = now + 1
    /\ UNCHANGED <<timers, refresh_next_due, last_started, state, slept_at, pc,
                   next_due, elapsed_while_sleeping, notifying, wall, client,
                   cancelled, suspends_closed>>

\* a start(2000) at t=0, pause at t=500, resume at t=1000, then nothing more
PauseResumeTick ==
    /\ now = 0 => last_started # None
    /\ now = 1 => IsPaused(timers, 1)
    /\ now = 2 => ~IsPaused(timers, 1)
    /\ ScenarioTick

PauseResumeStart == now = 0 /\ last_started = None /\ StartTimer(4)
PauseResumePause == now = 1 /\ IsRunning(timers, 1) /\ PauseTimer(1)
PauseResumeResume == now = 2 /\ IsPaused(timers, 1) /\ ResumeTimer(1)

NextPauseResume ==
    \/ PauseResumeStart
    \/ PauseResumePause
    \/ PauseResumeResume
    \/ List
    \/ SchedCompute
    \/ SchedNotified
    \/ SchedCountdown
    \/ NotificationClosed(1)
    \/ NotificationFailed(1)
    \/ PauseResumeTick

SpecPauseResume == Init /\ [][NextPauseResume]_vars

\* two starts at t=0, for 5000 and for 1000, then nothing more (one clock
\* unit is 1000 ms here)
TwoTimersStartLong == now = 0 /\ timers = << >> /\ StartTimer(5)
TwoTimersStartShort == now = 0 /\ DOMAIN timers = {1} /\ StartTimer(1)
TwoTimersTick == (now = 0 => DOMAIN timers = {1, 2}) /\ ScenarioTick

NextTwoTimers ==
    \/ TwoTimersStartLong
    \/ TwoTimersStartShort
    \/ List
    \/ SchedCompute
    \/ SchedNotified
    \/ SchedCountdown
    \/ \E id \in TimerIds : NotificationClosed(id)
    \/ \E id \in TimerIds : NotificationFailed(id)
    \/ TwoTimersTick

SpecTwoTimers == Init /\ [][NextTwoTimers]_vars

\* Scenario: a timer of 2 units is started at 0 (the unit is 5000 ms here);
\* the suspend begins at once, with 2 units remaining; ScenarioSleep units of
\* wall-clock time pass; the suspend ends.  The daemon may still run for a
\* while between the signal and the suspend (the monotonic clock ticks).  The
\* countdown of handle_awake_state never ends in this scenario: the timer is
\* Running only before the suspend begins, when it is not yet due.
SuspendStart == now = 0 /\ timers = << >> /\ last_started = None /\ StartTimer(2)
SuspendBegin ==
    /\ state = "Awake" /\ IsRunning(timers, 1)
    /\ SchedSuspendSignal("GoingToSleep")
SuspendPass ==
    /\ state = "Asleep" /\ pc = "compute"
    /\ wall < slept_at + ScenarioSleep
    /\ wall' = wall + 1
    /\ UNCHANGED <<timers, refresh_next_due, last_started, state, slept_at, pc,
                   next_due, elapsed_while_sleeping, notifying, now, client,
                   cancelled, suspends_closed>>
SuspendEnd ==
    /\ state = "Asleep" /\ pc = "compute"
    /\ wall = slept_at + ScenarioSleep
    /\ AsleepWake
SuspendTick ==
    /\ state = "Awake" => (last_started # None /\ ~IsRunning(timers, 1))
    /\ ScenarioTick

NextSuspend ==
    \/ SuspendStart
    \/ SuspendBegin
    \/ SuspendPass
    \/ SuspendEnd
    \/ List
    \/ SchedCompute
    \/ SchedNotified
    \/ AsleepSpawn
    \/ \E id \in TimerIds : NotificationClosed(id)
    \/ \E id \in TimerIds : NotificationFailed(id)
    \/ SuspendTick

SpecSuspend == Init /\ [][NextSuspend]_vars

\* Scenario: the suspend begins while no timer is Running; ScenarioSleep
\* units of wall-clock time pass; the machine runs again and, before the
\* time-keeping task has taken the WakingUp signal, clients start timers and
\* resume a paused one; then the task takes the signal.  Every timer that is
\* Running at that point was started or resumed after the suspended time.
LateStartEarly == state = "Awake" /\ timers = << >> /\ StartTimer(2)
LateStartPause == state = "Awake" /\ PauseTimer(1)
LateStartBegin ==
    /\ state = "Awake" /\ RunningIds(timers) = {}
    /\ SchedSuspendSignal("GoingToSleep")
Resumed == state = "Asleep" /\ pc = "compute" /\ wall = slept_at + ScenarioSleep
LateStart(duration) == Resumed /\ StartTimer(duration)
LateResume == Resumed /\ ResumeTimer(1)
LateStartTick == (state = "Asleep" => Resumed) /\ ScenarioTick

NextLateStart ==
    \/ LateStartEarly
    \/ LateStartPause
    \/ LateStartBegin
    \/ SuspendPass
    \/ \E duration \in Durations : LateStart(duration)
    \/ LateResume
    \/ SuspendEnd
    \/ AsleepSpawn
    \/ SchedCompute
    \/ SchedNotified
    \/ SchedCountdown
    \/ \E id \in TimerIds : NotificationClosed(id)
    \/ LateStartTick

SpecLateStart == Init /\ [][NextLateStart]_vars


\* ---------------------------------------------------------------------------
\* Properties
\* ---------------------------------------------------------------------------
Positive == Nat \ {0}

\* the smallest positive integer that is not a key of m
IsSmallestFree(m, id) ==
    /\ id \in Positive
    /\ id \notin DOMAIN m
    /\ \A k \in 1..(id - 1) : k \in DOMAIN m

\* C1: the registry's keys are positive integers (a key maps to one timer: the
\* registry is a function), and in every state a start (or again) returns the
\* smallest positive integer that is not a key at that moment, and adds the
\* new timer under that key and nothing else.
C1_SmallestFreeId ==
    /\ DOMAIN timers \subseteq Positive
    /\ \A duration \in Durations :
          LET r == _start_timer(timers, now, duration)
          IN  /\ IsSmallestFree(timers, r.id)
              /\ DOMAIN r.timers = DOMAIN timers \cup {r.id}
              /\ \A k \in DOMAIN timers : r.timers[k] = timers[k]

\* C1 witness: timer 2 was started at instant 0 and timer 1 at the present
\* instant, later: id 1 had been freed and the start took it again, not id 3.
C1_Witness ==
    /\ DOMAIN timers = {1, 2}
    /\ now > 0
    /\ timers[2] = Running(1)
    /\ timers[1] = Running(now + 2)
    /\ last_started = Some(2)

\* C3: pause(id, now) on a Running timer returns Ok and leaves the entry
\* under the same id, Paused with remaining = due - now, zero when now > due.
C3_PauseRunning ==
    \A id \in TimerIds :
       IsRunning(timers, id) =>
          LET res == pause_timer(timers, id, now)
              due == timers[id].due
          IN  /\ res.r = "Ok"
              /\ DOMAIN res.timers = DOMAIN timers
              /\ res.timers[id] = Paused(IF now > due THEN 0 ELSE due - now)

\* C3 witness: a timer paused after its deadline (remaining zero) while the
\* clock is past the shortest duration.
C3_Witness ==
    \E id \in TimerIds :
       /\ IsPaused(timers, id)
       /\ timers[id].remaining = 0
       /\ now > 1

\* C4: pause(id) on a Paused timer returns AlreadyPaused and changes nothing:
\* not its remaining, not its state, not any other entry.
C4_PausePaused ==
    \A id \in TimerIds :
       IsPaused(timers, id) =>
          LET res == pause_timer(timers, id, now)
          IN  /\ res.r = "AlreadyPaused"
              /\ res.timers = timers

\* C4 witness: a Paused timer with time left, beside another entry.
C4_Witness ==
    \E id \in TimerIds :
       /\ IsPaused(timers, id)
       /\ timers[id].remaining > 0
       /\ Cardinality(DOMAIN timers) = 2

\* C5: resume(id, now) on a Paused timer with remaining r returns Ok and
\* leaves it Running with due = now + r; resume on a Running timer returns
\* AlreadyRunning and changes nothing; pause and resume on an Elapsed timer
\* return AlreadyElapsed and change nothing.
C5_Resume ==
    \A id \in TimerIds :
       /\ IsPaused(timers, id) =>
             LET res == resume_timer(timers, id, now)
             IN  /\ res.r = "Ok"
                 /\ DOMAIN res.timers = DOMAIN timers
                 /\ res.timers[id] = Running(now + timers[id].remaining)
       /\ IsRunning(timers, id) =>
             LET res == resume_timer(timers, id, now)
             IN  res.r = "AlreadyRunning" /\ res.timers = timers
       /\ IsElapsed(timers, id) =>
             /\ resume_timer(timers, id, now).r = "AlreadyElapsed"
             /\ resume_timer(timers, id, now).timers = timers
             /\ pause_timer(timers, id, now).r = "AlreadyElapsed"
             /\ pause_timer(timers, id, now).timers = timers

\* C5 witness: an Elapsed timer beside a Paused one, after the clock moved.
C5_Witness ==
    /\ now > 0
    /\ \E id \in TimerIds : IsElapsed(timers, id)
    /\ \E id \in TimerIds : IsPaused(timers, id) /\ timers[id].remaining > 0

\* C6: for a Running timer with deadline due and now <= due, pause(id, now)
\* followed at once by resume(id, now) returns Ok twice and leaves the
\* registry as it was: the timer is Running with the original due.
C6_PauseResumeRoundTrip ==
    \A id \in TimerIds :
       (IsRunning(timers, id) /\ now <= timers[id].due) =>
          LET paused == pause_timer(timers, id, now)
              resumed == resume_timer(paused.timers, id, now)
          IN  /\ paused.r = "Ok"
              /\ resumed.r = "Ok"
              /\ resumed.timers = timers

\* C6 witness: a Running timer that is not yet due, at a later instant than 0.
C6_Witness ==
    \E id \in TimerIds :
       /\ IsRunning(timers, id)
       /\ now > 0
       /\ now < timers[id].due

\* C7: cancel(id) on a Running or Paused timer returns Ok and removes the
\* entry, leaving the others alone, so that id is free for a later start; and
\* a timer that was cancelled gets no elapsed-event afterwards: no
\* do_notification task is ever spawned for an id whose timer was cancelled
\* (and that no later start has taken).
C7_CancelRemovesForGood ==
    /\ [](\A id \in TimerIds :
            (IsRunning(timers, id) \/ IsPaused(timers, id)) =>
               LET res == cancel_timer(timers, id, now)
               IN  /\ res.r = "Ok"
                   /\ res.timers = Remove(timers, id)
                   /\ first_vacant_entry(res.timers) <= id)
    /\ [][\A id \in TimerIds :
            (id \in notifying' /\ id \notin notifying) => id \notin cancelled]_vars

C9_NotFound ==
    \A id \in TimerIds :
       id \notin DOMAIN timers =>
          /\ pause_timer(timers, id, now).r = "TimerNotFound"
          /\ pause_timer(timers, id, now).timers = timers
          /\ resume_timer(timers, id, now).r = "TimerNotFound"
          /\ resume_timer(timers, id, now).timers = timers
          /\ cancel_timer(timers, id, now).r = "TimerNotFound"
          /\ cancel_timer(timers, id, now).timers = timers

\* C9 witness: id 1 is free while the registry holds a timer of each kind of
\* id above it.
C9_Witness ==
    /\ 1 \notin DOMAIN timers
    /\ 2 \in DOMAIN timers
    /\ timers[2].state = "Paused"

\* C2: two start commands of different client tasks, interleaved in any way,
\* never hold the vacant entry of the same id at once, a held vacant entry is
\* no key of the registry, and the insert adds the new timer under an id that
\* was free and leaves every other entry as it was: no insert overwrites
\* another, and both timers are in the registry.
C2_ConcurrentStarts ==
    /\ [](\A c \in Clients, d \in Clients :
            (c # d /\ client[c].pc = "vacant" /\ client[d].pc = "vacant")
               => client[c].id # client[d].id)
    /\ [](\A c \in Clients :
            client[c].pc = "vacant" => client[c].id \notin DOMAIN timers)
    /\ [][\A c \in Clients :
            (client[c].pc = "vacant" /\ client'[c] = Idle) =>
               /\ client[c].id \notin DOMAIN timers
               /\ DOMAIN timers' = DOMAIN timers \cup {client[c].id}
               /\ \A k \in DOMAIN timers : timers'[k] = timers[k]]_vars

\* C2 witness: one client task holds the vacant entry of id 2 while the other
\* one, which began at the same instant, has inserted its timer under id 1.
C2_Witness ==
    /\ client["c2"].pc = "vacant"
    /\ client["c2"].id = 2
    /\ client["c1"] = Idle
    /\ IsRunning(timers, 1)
    /\ timers[1].due = client["c2"].now + 1
    /\ client["c2"].duration = 2

\* how often id occurs in a list of ids
Occurrences(list, id) == Cardinality({i \in 1..Len(list) : list[i] = id})

C11_OneEventPerElapse ==
    [][\A id \in TimerIds :
          (id \in notifying' /\ id \notin notifying)
             <=> (IsRunning(timers, id) /\ IsElapsed(timers', id))]_vars

\* C12: next_due_running returns None iff the registry holds no Running
\* timer; otherwise it returns the id of a Running timer (never a Paused or
\* an Elapsed one) with that timer's remaining, due - now, which is less than
\* or equal to the remaining of every other Running timer.
C12_NextDueRunning ==
    LET res == next_due_running(timers, now)
    IN  /\ res # {}
        /\ (None \in res) <=> (\A id \in DOMAIN timers : ~IsRunning(timers, id))
        /\ (None \in res) => res = {None}
        /\ \A nd \in res \ {None} :
              /\ IsRunning(timers, nd.id)
              /\ nd.duration = DurationSince(timers[nd.id].due, now)
              /\ \A k \in DOMAIN timers :
                    IsRunning(timers, k) =>
                       nd.duration <= DurationSince(timers[k].due, now)

\* C12 witness: two Running timers with different remaining, the one with
\* the larger id due first.
C12_Witness ==
    /\ IsRunning(timers, 1) /\ IsRunning(timers, 2)
    /\ now < timers[2].due
    /\ timers[2].due < timers[1].due

\* the Running timers whose remaining is the smallest
LeastRemaining(m, t) ==
    {i \in DOMAIN m :
       /\ IsRunning(m, i)
       /\ \A k \in DOMAIN m :
             IsRunning(m, k) => DurationSince(m[i].due, t) <= DurationSince(m[k].due, t)}

\* C13 as claimed: when several Running timers have the same smallest
\* remaining, next_due_running returns the one with the smallest id.
C13_TieSmallestId ==
    \A nd \in next_due_running(timers, now) \ {None} :
       \A k \in LeastRemaining(timers, now) : nd.id <= k

\* C13 as amended: when several Running timers have the same smallest
\* remaining, next_due_running returns one of them, the one the map's
\* iteration meets first, which may be any of them: the ids it may return are
\* exactly the Running timers of smallest remaining.
C13_TieAny ==
    {nd.id : nd \in next_due_running(timers, now) \ {None}}
       = LeastRemaining(timers, now)

\* C13 witness: two Running timers with the same due, after the clock moved.
C13_Witness ==
    /\ IsRunning(timers, 1) /\ IsRunning(timers, 2)
    /\ timers[1].due = timers[2].due
    /\ now > 0

\* C14: the listing changes no registry state: the registry after list is
\* the registry before it, the response holds one (id, state, remaining) per
\* key, and a second list at the same now returns the same set.
C14_ListFrame ==
    LET first == list_timers(timers, now)
        second == list_timers(first.timers, now)
    IN  /\ first.timers = timers
        /\ second.timers = timers
        /\ second.r = first.r
        /\ {info.id : info \in first.r} = DOMAIN timers
        /\ Cardinality(first.r) = Cardinality(DOMAIN timers)
        /\ \A info \in first.r : info.state = timers[info.id].state

\* C14 witness: the registry lists an Elapsed timer beside a Running one.
C14_Witness ==
    /\ \E id \in TimerIds : IsElapsed(timers, id)
    /\ \E id \in TimerIds : IsRunning(timers, id)
    /\ Cardinality(get_timerinfo_for_client(timers, now)) = 2

\* C15: every remaining reported to a client is non-negative: a Running
\* timer listed at now > due is reported with remaining 0, otherwise with
\* due - now; a Paused timer stores and reports a remaining >= 0; an Elapsed
\* timer is reported with remaining 0.
C15_RemainingNonNegative ==
    /\ \A id \in DOMAIN timers : IsPaused(timers, id) => timers[id].remaining >= 0
    /\ \A info \in get_timerinfo_for_client(timers, now) :
          /\ info.remaining >= 0
          /\ IsRunning(timers, info.id) =>
                info.remaining = IF now > timers[info.id].due THEN 0
                                 ELSE timers[info.id].due - now
          /\ IsPaused(timers, info.id) => info.remaining = timers[info.id].remaining
          /\ IsElapsed(timers, info.id) => info.remaining = 0

\* C15 witness: a Running timer is listed after its due time, which the
\* time-keeping task has not yet acted on.
C15_Witness ==
    \E id \in TimerIds :
       /\ IsRunning(timers, id)
       /\ now > timers[id].due
       /\ TimerInfo(id, timers[id], now).remaining = 0

\* C16: in the run start(2000) at t=0, pause at t=500, resume at t=1000 (one
\* unit = 500): the paused timer has and reports remaining 1500; once
\* resumed its due is 2500; it is not Elapsed before t=2500; and an
\* elapsed-event for it is emitted only in the step that marks it Elapsed, at
\* t >= 2500, hence once.
C16_PauseResumeScenario ==
    /\ []((now = 1 /\ IsPaused(timers, 1)) =>
            /\ timers[1].remaining = 3
            /\ TimerInfo(1, timers[1], now).remaining = 3)
    /\ []((now >= 2 /\ IsRunning(timers, 1)) => timers[1].due = 5)
    /\ [](IsElapsed(timers, 1) => now >= 5)
    /\ [][(1 \in notifying' /\ 1 \notin notifying) =>
            /\ now >= 5
            /\ IsRunning(timers, 1)
            /\ IsElapsed(timers', 1)]_vars

\* C17: in the run of two timers started at t=0, id 1 for 5000 and id 2 for
\* 1000 (one unit = 1000): while both are Running and the longer one is not
\* yet due, next_due_running returns id 2 with its remaining; once id 2 is
\* Elapsed (or gone) and id 1 is Running, it returns id 1 with remaining
\* 5000 minus the time since the start; it never returns a timer that is
\* Elapsed.
C17_TwoTimersScenario ==
    LET res == next_due_running(timers, now)
    IN  /\ (IsRunning(timers, 1) /\ IsRunning(timers, 2) /\ now < 5) =>
              res = {[id |-> 2, duration |-> IF now < 1 THEN 1 - now ELSE 0]}
        /\ (IsRunning(timers, 1) /\ ~IsRunning(timers, 2)) =>
              res = {[id |-> 1, duration |-> IF now < 5 THEN 5 - now ELSE 0]}
        /\ \A nd \in res \ {None} : ~IsElapsed(timers, nd.id)

\* C17 witness: the scheduler has marked the 1000 timer Elapsed, the 5000 one
\* is Running with 3000 left.
C17_Witness ==
    /\ IsElapsed(timers, 2)
    /\ IsRunning(timers, 1)
    /\ timers[1].due = 5
    /\ now = 2
\* C18: in the suspend scenario (a Running timer with 2 units remaining when
\* the suspend begins, ScenarioSleep units of wall-clock time pass), awaken
\* returns exactly this timer's id as elapsed on suspend-end, and from then on
\* no snapshot a client gets shows the timer as Running.
RunningInSnapshot(id, m, t) ==
    \E info \in get_timerinfo_for_client(m, t) : info.id = id /\ info.state = "Running"

C18_SuspendScenario ==
    [][ /\ (state = "Asleep" /\ pc = "compute" /\ pc' = "spawn") =>
              /\ wall - slept_at = ScenarioSleep
              /\ elapsed_while_sleeping' = <<1>>
              /\ ~RunningInSnapshot(1, timers', now')
        /\ (last_started # None /\ ~RunningInSnapshot(1, timers, now)) =>
              ~RunningInSnapshot(1, timers', now')
      ]_vars

C18_Witness ==
    /\ state = "Awake" /\ slept_at = 0 /\ 1 \in notifying
    /\ IsElapsed(timers, 1)
    /\ cancelled = {} /\ now = 0
\* C19: a suspend-begin signal taken while Awake makes the scheduler Asleep
\* with slept_at the wall-clock time of that moment; while it is Asleep no
\* step but the handling of a suspend-end signal marks a timer Elapsed or
\* emits an elapsed-event, whatever the clients do meanwhile (start, pause
\* and resume are steps of the run; every command's outcome is checked on each
\* registry the scheduler is Asleep with, as it comes up); it is Awake again
\* only by finishing the handling of a suspend-end signal.
ElapsedIds(m) == {id \in DOMAIN m : m[id].state = "Elapsed"}

CommandOutcomes(m, t) ==
    {_start_timer(m, t, duration).timers : duration \in Durations}
    \cup {pause_timer(m, id, t).timers : id \in TimerIds}
    \cup {resume_timer(m, id, t).timers : id \in TimerIds}
    \cup {cancel_timer(m, id, t).timers : id \in TimerIds}
    \cup {list_timers(m, t).timers}

C19_SleepCycle ==
    [][ /\ (state = "Awake" /\ SchedSuspendSignal("GoingToSleep")) =>
              (state' = "Asleep" /\ slept_at' = wall)
        /\ (state = "Awake" /\ state' = "Asleep") => slept_at' = wall
        /\ (state = "Asleep" /\ pc = "compute") =>
              IF AsleepWake
              THEN state' = "Asleep" /\ pc' = "spawn"
              ELSE /\ state' = "Asleep" /\ pc' = "compute"
                   /\ notifying' = notifying
                   /\ \A id \in DOMAIN timers' :
                         IsElapsed(timers', id) => IsElapsed(timers, id)
        /\ (state = "Asleep" /\ pc = "spawn") =>
              (state' = "Awake" \/ (state' = "Asleep" /\ pc' = "spawn"))
        /\ (state' = "Asleep" /\ pc' = "compute"
              /\ (state = "Awake" \/ timers' # timers)) =>
              \A m \in CommandOutcomes(timers', now') :
                 ElapsedIds(m) \subseteq ElapsedIds(timers')
      ]_vars

C19_Witness ==
    /\ state = "Asleep" /\ pc = "compute"
    /\ refresh_next_due
    /\ \E id \in DOMAIN timers : IsRunning(timers, id) /\ timers[id].due <= now

\* C20: a suspend-begin signal taken while Asleep leaves the scheduler Asleep
\* with the same slept_at, a suspend-end signal taken while Awake leaves it
\* Awake; neither changes a timer or emits an elapsed-event.
C20_OutOfOrderIgnored ==
    [][ /\ AsleepIgnore =>
              /\ state' = "Asleep" /\ slept_at' = slept_at
              /\ timers' = timers /\ notifying' = notifying
              /\ elapsed_while_sleeping' = elapsed_while_sleeping
        /\ SchedSuspendSignal("WakingUp") =>
              /\ state' = "Awake"
              /\ timers' = timers /\ notifying' = notifying
              /\ elapsed_while_sleeping' = elapsed_while_sleeping
      ]_vars

C20_Witness ==
    /\ state = "Asleep" /\ pc = "compute"
    /\ wall > slept_at
    /\ refresh_next_due
    /\ \E id \in DOMAIN timers : IsPaused(timers, id)
    /\ \E id \in DOMAIN timers : IsRunning(timers, id) /\ timers[id].due <= now
\* C21: when the wall clock reads earlier than slept_at at suspend-end, the
\* sleep duration is zero and awaken leaves the due of every Running timer as
\* it is (a timer already due is marked Elapsed, none is moved); the
\* scheduler goes on to Awake and the process does not exit.
C21_ClockWentBackward ==
    [][ /\ (AsleepWake /\ wall < slept_at) =>
              /\ sleep_duration_of(wall, slept_at) = 0
              /\ DOMAIN timers' = DOMAIN timers
              /\ \A id \in DOMAIN timers :
                    \/ timers'[id] = timers[id]
                    \/ /\ IsRunning(timers, id) /\ timers[id].due <= now
                       /\ IsElapsed(timers', id)
              /\ \A id \in DOMAIN timers :
                    IsRunning(timers', id) => timers'[id].due = timers[id].due
              /\ state' # "Exited"
        /\ (state = "Asleep" /\ pc = "spawn" /\ wall < slept_at) =>
              /\ state' # "Exited"
              /\ pc' # "spawn" => state' = "Awake"
      ]_vars

C21_Witness ==
    /\ state = "Asleep" /\ pc = "spawn"
    /\ wall < slept_at
    /\ elapsed_while_sleeping = << >>
    /\ \E id \in DOMAIN timers : IsRunning(timers, id) /\ timers[id].due > now
\* C22: when the suspend-event stream has ended, in whichever state of the
\* scheduler, the daemon keeps running (commands are served, Running timers
\* elapse).
C22_SurvivesStreamEnd == suspends_closed => Alive
\* C23: while the scheduler is Awake, a Running timer is marked Elapsed (and
\* its elapsed-event emitted) only when no other Running timer is due
\* earlier: of two Running timers the one due first elapses first.
C23_ElapseInDueOrder ==
    [][ \A b \in DOMAIN timers :
           (state = "Awake" /\ IsRunning(timers, b) /\ IsElapsed(timers', b)) =>
              \A a \in DOMAIN timers :
                 IsRunning(timers, a) => timers[a].due >= timers[b].due
      ]_vars
\* C24: a timer that is Paused is listed as Paused, with the remaining
\* captured at the pause, after every step that is not a resume or a cancel of
\* its id: no step of the scheduler or of a notification task changes or
\* removes it.
C24_PausedStaysListed ==
    [][ \A id \in DOMAIN timers :
           IsPaused(timers, id) =>
              \/ TimerInfo(id, timers[id], now) \in list_timers(timers', now').r
              \/ ResumeTimer(id)
              \/ CancelTimer(id)
      ]_vars
AgainStarts(m, last, t, duration) ==
    LET result == again(m, last, t)
    IN  /\ result.notify
        /\ result.r = AgainOk(result.r.id, duration)
        /\ IsSmallestFree(m, result.r.id)
        /\ result.timers = Insert(m, result.r.id, Running(t + duration))

C26_Again ==
    /\ last_started = None
    /\ again(timers, last_started, now) =
          [timers |-> timers, r |-> NonePreviouslyStarted, notify |-> FALSE]
    /\ [][ /\ (last_started' # last_started) =>
                (\E duration \in Durations :
                    StartTimer(duration) /\ last_started' = Some(duration))
           /\ (last_started' = last_started /\ DOMAIN timers' # DOMAIN timers
                  /\ DOMAIN timers \subseteq DOMAIN timers') =>
                (/\ last_started # None
                 /\ AgainStarts(timers, last_started, now, last_started.some)
                 /\ timers' = again(timers, last_started, now).timers)
         ]_vars

C26_Witness ==
    /\ last_started = Some(2)
    /\ DOMAIN timers = {2}
    /\ now = 1

\* C27: with a time-keeping task that keeps running and time that passes, a
\* Running timer (due within the run of the clock) is in the end marked
\* Elapsed with its elapsed-event emitted, unless it is paused or cancelled.
C27_EventuallyElapsed ==
    \A id \in TimerIds :
       (IsRunning(timers, id) /\ timers[id].due <= MaxTime)
          ~> \/ IsElapsed(timers, id) /\ id \in notifying
             \/ IsPaused(timers, id)
             \/ id \in cancelled
\* C28: whenever the countdown branch of the scheduler calls set_elapsed, the
\* id is in the registry and its timer is Running.
C28_SetElapsedOnRunning ==
    [][ SchedCountdown => IsRunning(timers, next_due.id) ]_vars
\* C29: set_elapsed(id) turns a Running timer Elapsed and nothing else; on an
\* id that is absent, Paused or Elapsed it leaves the registry as it is; the
\* time-keeping task goes on with its loop after the call.
SetElapsedContract(m, id) ==
    set_elapsed(m, id) =
       IF id \in DOMAIN m /\ IsRunning(m, id)
       THEN [k \in DOMAIN m |-> IF k = id THEN Elapsed ELSE m[k]]
       ELSE m

C29_SetElapsed ==
    [][ /\ SchedCountdown =>
              /\ SetElapsedContract(timers, next_due.id)
              /\ timers' = set_elapsed(timers, next_due.id)
              /\ state' = "Awake" /\ pc' = "compute"
        /\ timers' # timers =>
              \A id \in 1..(MaxTimers + 1) : SetElapsedContract(timers', id)
      ]_vars

C29_Witness ==
    /\ IsPaused(timers, 1) /\ 1 \in notifying
    /\ IsElapsed(timers, 2)
    /\ state = "Awake" /\ pc = "compute"
\* C30: mutations of one entry by two tasks are linearizable.  Each write is
\* the whole mutation taken on the registry as it is at the write, with the
\* response it returns; and a pause and a set_elapsed called on the same
\* Running timer end either with Ok and the timer Paused or with
\* AlreadyElapsed and the timer Elapsed.
C30_Linearizable ==
    /\ [][ \A c \in Clients :
             (client[c].pc = "entry" /\ client'[c].pc = "done") =>
                LET whole == Mutation(client[c].op, timers, client[c].id,
                                      client[c].now)
                IN  timers' = whole.timers /\ client'[c].r = whole.r
         ]_vars
    /\ [](\A c \in Clients, d \in Clients :
            ( /\ client[c].pc = "done" /\ client[c].op = "pause"
              /\ client[d].pc = "done" /\ client[d].op = "set_elapsed"
              /\ client[c].id = client[d].id
              /\ client[c].called_on # None /\ client[c].called_on.some.state = "Running"
              /\ client[d].called_on = client[c].called_on )
            => \/ client[c].r = "Ok" /\ IsPaused(timers, client[c].id)
               \/ client[c].r = "AlreadyElapsed" /\ IsElapsed(timers, client[c].id))

C30_Witness ==
    /\ client["c1"].pc = "done" /\ client["c1"].op = "pause"
    /\ client["c2"].pc = "done" /\ client["c2"].op = "set_elapsed"
    /\ client["c1"].id = 1 /\ client["c2"].id = 1
    /\ client["c1"].called_on = Some(Running(2))
    /\ client["c2"].called_on = Some(Running(2))
    /\ client["c1"].r = "AlreadyElapsed"
    /\ IsElapsed(timers, 1)

\* C31: a wait for a timer that was paused before its due time (it is Paused
\* with time remaining) never completes as an elapse: the countdown branch is
\* not taken for that id, and no do_notification task is spawned for it.
C31_StaleWaitDropped ==
    [][\A id \in TimerIds :
          (IsPaused(timers, id) /\ timers[id].remaining > 0) =>
             /\ ~(SchedCountdown /\ next_due.id = id)
             /\ ~(id \in notifying' /\ id \notin notifying)]_vars

\* C32: no state-change notification is lost.  A command that changes the
\* registry leaves a permit stored (and pause, resume, cancel and again notify
\* exactly when they answer Ok); a stored permit goes away only by the
\* time-keeping task taking it, Awake, and going back to compute next_due;
\* so whenever the task waits in the select! with no permit stored, what it
\* waits for fits the registry as it is: nothing if no timer is Running, else
\* a Running timer with no Running timer due before it.
Fresh(m, nd, t) ==
    IF nd = None
    THEN RunningIds(m) = {}
    ELSE /\ IsRunning(m, nd.id)
         /\ nd.deadline >= m[nd.id].due
         /\ \A k \in RunningIds(m) : m[k].due >= m[nd.id].due \/ t >= m[nd.id].due

NotifiesWhenOk(m, last, t) ==
    /\ \A id \in TimerIds :
          /\ pause_timer(m, id, t).notify = (pause_timer(m, id, t).r = "Ok")
          /\ resume_timer(m, id, t).notify = (resume_timer(m, id, t).r = "Ok")
          /\ cancel_timer(m, id, t).notify = (cancel_timer(m, id, t).r = "Ok")
    /\ again(m, last, t).notify = (again(m, last, t).r.response = "Ok")

C33_IdleTakesNoElapseStep ==
    [][ (state = "Awake" /\ RunningIds(timers) = {} /\ ~refresh_next_due) =>
           /\ ~SchedCountdown
           /\ notifying' \subseteq notifying
           /\ \A id \in DOMAIN timers' : IsElapsed(timers', id) => IsElapsed(timers, id)
      ]_vars

\* C34: every registered timer is a Running timer with a due time, a Paused
\* timer with a remaining duration, or an Elapsed timer; and in every step an
\* entry that stays in the registry keeps its state or goes from Running to
\* Paused, from Paused to Running or from Running to Elapsed: a Paused timer
\* never becomes Elapsed, an Elapsed timer never becomes Running or Paused.
TimerTransitions ==
    {<<"Running", "Paused">>, <<"Paused", "Running">>, <<"Running", "Elapsed">>}

WellFormed(timer) ==
    \/ timer.state = "Running" /\ timer = Running(timer.due) /\ timer.due \in Int
    \/ timer.state = "Paused" /\ timer = Paused(timer.remaining)
          /\ timer.remaining \in Nat
    \/ timer = Elapsed

C34_StateMachine ==
    [][ timers' # timers =>
          /\ \A id \in DOMAIN timers' : WellFormed(timers'[id])
          /\ \A id \in DOMAIN timers \cap DOMAIN timers' :
                \/ timers'[id].state = timers[id].state
                \/ <<timers[id].state, timers'[id].state>> \in TimerTransitions
      ]_vars

C34_Witness ==
    /\ state = "Asleep" /\ pc = "spawn"
    /\ IsPaused(timers, 1)
    /\ IsElapsed(timers, 2)
    /\ elapsed_while_sleeping = <<2>>

\* C35: no timer is marked Elapsed early: whenever the countdown branch of
\* the Awake time-keeping task changes a timer to Elapsed, the clock is at or
\* past the due time that timer has at that moment.
C35_NeverElapsedEarly ==
    [][\A id \in TimerIds :
          (SchedCountdown /\ IsRunning(timers, id) /\ IsElapsed(timers', id)) =>
             now >= timers[id].due]_vars

\* C36: the remove at the end of do_notification only ever takes an Elapsed
\* entry out of the registry, never a Running or a Paused timer that holds
\* the id.
C36_NotificationRemovesElapsed ==
    [][\A id \in DOMAIN timers :
          (id \notin DOMAIN timers' /\ NotificationClosed(id)) =>
             IsElapsed(timers, id)]_vars

\* C37: when awaken returns, every id in the list it returns is a registry
\* entry in state Elapsed.
C37_ReturnedAreElapsed ==
    [][ AwakenSetElapsed =>
          \A i \in 1..Len(elapsed_while_sleeping') :
             IsElapsed(timers', elapsed_while_sleeping'[i]) ]_vars

SameButFor(m, n, id) ==
    /\ DOMAIN n \ {id} = DOMAIN m \ {id}
    /\ \A k \in DOMAIN m \ {id} : n[k] = m[k]

OneKeyOnly(m, t) ==
    /\ \A id \in 1..(MaxTimers + 1), op \in Mutations :
          SameButFor(m, Mutation(op, m, id, t).timers, id)
    /\ \A duration \in Durations :
          LET started == _start_timer(m, t, duration)
          IN  /\ started.id \notin DOMAIN m
              /\ DOMAIN started.timers = DOMAIN m \cup {started.id}
              /\ SameButFor(m, started.timers, started.id)

C39_OtherEntriesUntouched == OneKeyOnly(timers, now)

C39_Witness ==
    /\ IsPaused(timers, 1) /\ timers[1].remaining = 2
    /\ 2 \in cancelled /\ 2 \notin DOMAIN timers
    /\ now = 1

\* C40: a timer started or resumed while the time-keeping task is Asleep,
\* after the suspended time has passed, is not shortened by that sleep: what
\* remains of it after awaken is at least what remained just before.
C40_LateStartKeepsItsTime ==
    [][ (state = "Asleep" /\ pc = "compute" /\ pc' = "spawn") =>
          \A id \in RunningIds(timers) :
             TimerInfo(id, timers'[id], now').remaining >=
                TimerInfo(id, timers[id], now).remaining ]_vars
====
